---- MODULE Spec2Model ----
(***************************************************************************)
(* Market-data service of b25: the per-symbol order-book store             *)
(* (services/market-data/src/orderbook.rs) and the depth-frame handler of  *)
(* the feed client (services/market-data/src/websocket.rs).                *)
(*                                                                         *)
(* f64 values are modelled as integers plus the distinguished value NaN;   *)
(* a BTreeMap<OrderedFloat, f64> is modelled as the sequence of its        *)
(* <<key, value>> entries in storage order, searched the way the standard  *)
(* library searches a leaf node (linear scan with OrderedFloat::cmp), which*)
(* is exact for maps of at most 11 entries.  Update ids are u64 in the     *)
(* source; the model keeps them far below 2^64, so `last_update_id + 1`    *)
(* never overflows here.  The wall-clock `timestamp` field is left out.    *)
(***************************************************************************)
EXTENDS Integers, Sequences, FiniteSets, TLC

\* ------------------------------------------------------------------ bounds
MaxId == 3
MaxLevels == 1
MaxLevelsL == 2

\* --------------------------------------------------------------- f64 model
NaN == -1000

IsNaN(x) == x = NaN

\* f64 `==` (IEEE: NaN equals nothing)
FEq(x, y) == ~IsNaN(x) /\ ~IsNaN(y) /\ x = y

\* f64 `<`
FLt(x, y) == ~IsNaN(x) /\ ~IsNaN(y) /\ x < y

\* str::parse::<f64>() on the strings the model feeds: <<ok, value>>
ParseF64(str) ==
    CASE str = "0"   -> <<TRUE, 0>>
      [] str = "1"   -> <<TRUE, 1>>
      [] str = "2"   -> <<TRUE, 2>>
      [] str = "3"   -> <<TRUE, 3>>
      [] str = "-1"  -> <<TRUE, -1>>
      [] str = "NaN" -> <<TRUE, NaN>>
      [] OTHER       -> <<FALSE, 0>>

\* p.parse().unwrap_or(0.0)
ParseOrZero(str) == IF ParseF64(str)[1] THEN ParseF64(str)[2] ELSE 0

\* ------------------------------------------------- OrderedFloat / BTreeMap
\* impl Ord for OrderedFloat: partial_cmp(..).unwrap_or(Equal)
OrdCmp(a, b) ==
    IF IsNaN(a) \/ IsNaN(b) THEN "Equal"
    ELSE IF a < b THEN "Less"
    ELSE IF a > b THEN "Greater"
    ELSE "Equal"

\* position at which the node search for key k stops in map m
SearchIdx(m, k) ==
    LET stops == {i \in 1..Len(m) : OrdCmp(k, m[i][1]) # "Greater"}
    IN  IF stops = {} THEN Len(m) + 1
        ELSE CHOOSE i \in stops : \A j \in stops : i <= j

SearchFound(m, k) ==
    /\ SearchIdx(m, k) <= Len(m)
    /\ OrdCmp(k, m[SearchIdx(m, k)][1]) = "Equal"

\* BTreeMap::insert: an equal key keeps the stored key and takes the value
BTreeInsert(m, k, v) ==
    LET i == SearchIdx(m, k)
    IN  IF SearchFound(m, k)
        THEN [m EXCEPT ![i] = <<m[i][1], v>>]
        ELSE SubSeq(m, 1, i - 1) \o <<(<<k, v>>)>> \o SubSeq(m, i, Len(m))

\* BTreeMap::remove
BTreeRemove(m, k) ==
    LET i == SearchIdx(m, k)
    IN  IF SearchFound(m, k)
        THEN SubSeq(m, 1, i - 1) \o SubSeq(m, i + 1, Len(m))
        ELSE m

\* ------------------------------------------------------------- order book
Symbols == {"BTCUSDT", "ETHUSDT"}

\* OrderBook::new
NewBook(symbol) ==
    [symbol |-> symbol, bids |-> <<>>, asks |-> <<>>, last_update_id |-> 0]

\* variant of ApplyLevel that lacks the zero-quantity test
ApplyLevel_NoDelete(m, level) ==
    BTreeInsert(m, level.price, level.quantity)

\* one iteration of the `for level in &update.bids / asks` loops
ApplyLevel(m, level) ==
    IF FEq(level.quantity, 0)
    THEN BTreeRemove(m, level.price)
    ELSE BTreeInsert(m, level.price, level.quantity)

RECURSIVE ApplyLevels(_, _)
ApplyLevels(m, levels) ==
    IF levels = <<>> THEN m
    ELSE ApplyLevels(ApplyLevel(m, Head(levels)), Tail(levels))

\* variant of ApplyUpdate that validates the sequence after mutating the book
ApplyUpdate_LateCheck(book, update) ==
    LET nb == [book EXCEPT
                 !.bids = ApplyLevels(book.bids, update.bids),
                 !.asks = ApplyLevels(book.asks, update.asks),
                 !.last_update_id = update.last_update_id]
    IN  [ok |-> ~(update.first_update_id > book.last_update_id + 1), book |-> nb]

\* variant of ApplyUpdate that forgets to advance last_update_id
ApplyUpdate_KeepId(book, update) ==
    IF update.first_update_id > book.last_update_id + 1
    THEN [ok |-> FALSE, book |-> book]
    ELSE [ok |-> TRUE,
          book |-> [book EXCEPT
                      !.bids = ApplyLevels(book.bids, update.bids),
                      !.asks = ApplyLevels(book.asks, update.asks)]]

\* variant of ApplyUpdate whose gap test is off by one (rejects the update
\* that starts right after the book's last id)
ApplyUpdate_StrictSeq(book, update) ==
    IF update.first_update_id > book.last_update_id
    THEN [ok |-> FALSE, book |-> book]
    ELSE [ok |-> TRUE,
          book |-> [book EXCEPT
                      !.bids = ApplyLevels(book.bids, update.bids),
                      !.asks = ApplyLevels(book.asks, update.asks),
                      !.last_update_id = update.last_update_id]]

\* OrderBook::apply_update: [ok, book]
ApplyUpdate(book, update) ==
    IF update.first_update_id > book.last_update_id + 1
    THEN [ok |-> FALSE, book |-> book]
    ELSE [ok |-> TRUE,
          book |-> [book EXCEPT
                      !.bids = ApplyLevels(book.bids, update.bids),
                      !.asks = ApplyLevels(book.asks, update.asks),
                      !.last_update_id = update.last_update_id]]

\* the conversion at the head of handle_depth_update
ToLevels(pairs) ==
    [i \in 1..Len(pairs) |->
        [price |-> ParseOrZero(pairs[i][1]), quantity |-> ParseOrZero(pairs[i][2])]]

ToDepthUpdate(f) ==
    [first_update_id |-> f.U, last_update_id |-> f.u,
     bids |-> ToLevels(f.b), asks |-> ToLevels(f.a)]

\* ------------------------------------------------------------------ state
VARIABLES
    books,      \* OrderBookManager.books: symbol -> OrderBook (a partial map)
    pc,         \* position of each symbol's feed client in its depth handler
    frame,      \* the depth frame each client is handling (<<>> when none)
    afterReset, \* the client's previous depth frame ended in a book reset
    prevId,     \* last_update_id the book had when update was called
    snap,       \* the book clone update returned to the handler (<<>>: none)
    trace,      \* what each client's current handler call has done so far:
                \* metric increments and sink attempts, in order
    ring,       \* SharedMemoryRing.queue: the records held, oldest first
    view,       \* the value the latest read-side call returned (<<>>: none)
    wcount,     \* number of write calls each ring producer has made
    lastWrite,  \* record and result of each producer's latest write
    lastRead,   \* result of each consumer's pending read (<<>>: none)
    pushed,     \* the records whose write returned Ok, in that order
    popped,     \* the records returned by reads, in that order
    conn,       \* where each client's connect_and_run is: "connecting",
                \* "streaming", "sleeping" or "returned"
    delay,      \* connect_and_run's current_delay, in ms
    gauge,      \* websocket_connected{symbol}
    fails,      \* failed connection attempts since the last successful one
    lastEv,     \* the latest event of the client's connection
    hb,         \* the heartbeat task of the client's latest connection:
                \* "none", "running" or "failed"
    ping        \* Publisher::health_check: "idle", or "wait" with PING sent

connVars == <<conn, delay, gauge, fails, lastEv>>
storeVars == <<books, pc, frame, afterReset, prevId, snap, connVars>>
ringObs == <<wcount, lastWrite, lastRead, pushed, popped>>

vars == <<books, pc, frame, afterReset, prevId, snap, trace, ring, view,
          wcount, lastWrite, lastRead, pushed, popped,
          conn, delay, gauge, fails, lastEv, hb, ping>>

\* WebSocketClient.reconnect_delay and max_reconnect_delay, in ms
InitialDelay == 1000
MaxDelay == 60 * 1000

\* the count of failed connection attempts is kept up to this number
MaxFails == 8

Producers == {"p1", "p2"}
Consumers == {"c1", "c2"}

HasBook(s) == s \in DOMAIN books

\* the map with symbol s bound to book b (entry().or_insert_with + mutation)
PutBook(s, b) == [t \in DOMAIN books \cup {s} |-> IF t = s THEN b ELSE books[t]]

\* variant of DropBook that clears the map
DropBook_Clear(s) == <<>>

\* books.remove(&self.symbol)
DropBook(s) == [t \in DOMAIN books \ {s} |-> books[t]]

\* OrderBookManager::update on the current store: [ok, book]
ManagerUpdate(s, update) ==
    ApplyUpdate(IF HasBook(s) THEN books[s] ELSE NewBook(s), update)

Init ==
    /\ books = <<>>
    /\ pc = [s \in Symbols |-> "idle"]
    /\ frame = [s \in Symbols |-> <<>>]
    /\ afterReset = [s \in Symbols |-> FALSE]
    /\ prevId = [s \in Symbols |-> 0]
    /\ snap = [s \in Symbols |-> <<>>]
    /\ trace = [s \in Symbols |-> <<>>]
    /\ ring = <<>>
    /\ view = <<>>
    /\ wcount = [p \in Producers |-> 0]
    /\ lastWrite = [p \in Producers |-> <<>>]
    /\ lastRead = [c \in Consumers |-> <<>>]
    /\ pushed = <<>>
    /\ popped = <<>>
    /\ conn = [s \in Symbols |-> "connecting"]
    /\ delay = [s \in Symbols |-> InitialDelay]
    /\ gauge = [s \in Symbols |-> 0]
    /\ fails = [s \in Symbols |-> 0]
    /\ lastEv = [s \in Symbols |-> "start"]
    /\ hb = [s \in Symbols |-> "none"]
    /\ ping = "idle"

\* ------------------------------------------------------------- input sets
SeqsUpTo(S, n) == UNION {[1..k -> S] : k \in 0..n}

DepthFrames(ids, strs, n) ==
    UNION {{[U |-> id[1], u |-> id[2], b |-> b, a |-> a] :
                id \in ids, b \in [1..k[1] -> strs], a \in [1..k[2] -> strs]} :
           k \in {x \in (0..n) \X (0..n) : x[1] + x[2] <= n}}

\* frames that exercise the sequence rules: every pair of ids up to MaxId,
\* at most MaxLevels levels
SeqIds == (0..MaxId) \X (0..MaxId)
SeqStrs == {"1", "2"} \X {"0", "1"}
SeqFrames == DepthFrames(SeqIds, SeqStrs, MaxLevels)

\* frames that exercise the level rules: in-sequence frames of at most
\* MaxLevelsL levels whose strings include a non-number and "NaN", and one
\* frame that is always out of sequence
LvlIds == {<<1, 1>>}
LvlStrs == {"1", "x", "NaN"} \X {"0", "1"}
GapFrame == [U |-> MaxId + 2, u |-> MaxId + 2, b |-> <<>>, a |-> <<>>]
LvlFrames == DepthFrames(LvlIds, LvlStrs, MaxLevelsL) \cup {GapFrame}

\* ---------------------------------------------------------------- actions
\* variant of RecvDepth that takes the next frame while the cache set of the
\* previous one is still to be sent
RecvDepth_Pipelined(s, f) ==
    /\ conn[s] = "streaming"
    /\ pc[s] \in {"idle", "cache"}
    /\ pc' = [pc EXCEPT ![s] = "update"]
    /\ frame' = [frame EXCEPT ![s] = <<f>>]
    /\ UNCHANGED <<hb, ping, books, afterReset, prevId, snap, trace, ring, view, ringObs, connVars>>

\* read.next() yields a text frame that process_message decodes as a depth
\* update for this client
RecvDepth(s, f) ==
    /\ conn[s] = "streaming"
    /\ pc[s] = "idle"
    /\ pc' = [pc EXCEPT ![s] = "update"]
    /\ frame' = [frame EXCEPT ![s] = <<f>>]
    /\ UNCHANGED <<hb, ping, books, afterReset, prevId, snap, trace, ring, view, ringObs, connVars>>

\* one entry of a handler's trace: a metric increment ("inc"), the start
\* ("try") or the end ("end") of a sink operation, or the return of a call
\* ("ret"); key holds the labels, channel or cache key, val the payload
Ev(kind, op, key, ttl, ok, val) ==
    [kind |-> kind, op |-> op, key |-> key, ttl |-> ttl, ok |-> ok, val |-> val]

Inc(metric, labels) == Ev("inc", metric, labels, 0, TRUE, <<>>)

Log(s, evs) == [trace EXCEPT ![s] = @ \o evs]

\* variant of UpdateBook that sends the bus publish of the book before the
\* store's write lock is released
UpdateBook_PublishLocked(s) ==
    /\ pc[s] = "update"
    /\ LET r == ManagerUpdate(s, ToDepthUpdate(frame[s][1]))
           publish == r.ok /\ Len(r.book.bids) > 0 /\ Len(r.book.asks) > 0
       IN  /\ books' = PutBook(s, r.book)
           /\ pc' = [pc EXCEPT ![s] =
                        IF ~r.ok THEN "reset"
                        ELSE IF publish THEN "bus_wait" ELSE "done"]
           /\ snap' = [snap EXCEPT ![s] = IF r.ok THEN <<r.book>> ELSE <<>>]
           /\ trace' = IF publish
                       THEN Log(s, <<Inc("orderbook_updates_total", <<s>>),
                                     Ev("try", "publish", <<"orderbook:", s>>, 0,
                                        TRUE, <<>>)>>)
                       ELSE trace
    /\ afterReset' = [afterReset EXCEPT ![s] = FALSE]
    /\ prevId' = [prevId EXCEPT ![s] = IF HasBook(s) THEN books[s].last_update_id ELSE 0]
    /\ UNCHANGED <<hb, ping, frame, ring, view, ringObs, connVars>>

\* handle_depth_update up to the return of orderbook_manager.update, which
\* runs under the store's write lock, and the test of the Ok arm with the
\* increment of orderbook_updates_total
UpdateBook(s) ==
    /\ pc[s] = "update"
    /\ LET r == ManagerUpdate(s, ToDepthUpdate(frame[s][1]))
           publish == r.ok /\ Len(r.book.bids) > 0 /\ Len(r.book.asks) > 0
       IN  /\ books' = PutBook(s, r.book)
           /\ pc' = [pc EXCEPT ![s] =
                        IF ~r.ok THEN "reset"
                        ELSE IF publish THEN "publish" ELSE "done"]
           /\ snap' = [snap EXCEPT ![s] = IF r.ok THEN <<r.book>> ELSE <<>>]
           /\ trace' = IF publish
                       THEN Log(s, <<Inc("orderbook_updates_total", <<s>>)>>)
                       ELSE trace
    /\ afterReset' = [afterReset EXCEPT ![s] = FALSE]
    /\ prevId' = [prevId EXCEPT ![s] = IF HasBook(s) THEN books[s].last_update_id ELSE 0]
    /\ UNCHANGED <<hb, ping, frame, ring, view, ringObs, connVars>>

\* the Ok arm with both sides non-empty: publisher.publish_orderbook(&book),
\* as the book store sees it: the call works on the clone and takes no lock
\* of the store (its sinks are the Pub steps below)
PublishOrderbook(s) ==
    /\ pc[s] = "publish"
    /\ pc' = [pc EXCEPT ![s] = "done"]
    /\ UNCHANGED <<hb, ping, books, frame, afterReset, prevId, snap, trace, ring, view, ringObs, connVars>>

\* variant of ResetBook that leaves the book in the store
ResetBook_KeepBook(s) ==
    /\ pc[s] = "reset"
    /\ books' = books
    /\ pc' = [pc EXCEPT ![s] = "done"]
    /\ afterReset' = [afterReset EXCEPT ![s] = TRUE]
    /\ trace' = Log(s, <<Inc("sequence_errors_total", <<s>>)>>)
    /\ UNCHANGED <<hb, ping, frame, prevId, snap, ring, view, ringObs, connVars>>

\* the Err arm: books.write().remove(&self.symbol)
ResetBook(s) ==
    /\ pc[s] = "reset"
    /\ books' = DropBook(s)
    /\ pc' = [pc EXCEPT ![s] = "done"]
    /\ afterReset' = [afterReset EXCEPT ![s] = TRUE]
    /\ trace' = Log(s, <<Inc("sequence_errors_total", <<s>>)>>)
    /\ UNCHANGED <<hb, ping, frame, prevId, snap, ring, view, ringObs, connVars>>

\* handle_depth_update returns Ok(()); the read loop waits for the next frame
Return(s) ==
    /\ pc[s] = "done"
    /\ pc' = [pc EXCEPT ![s] = "idle"]
    /\ frame' = [frame EXCEPT ![s] = <<>>]
    /\ prevId' = [prevId EXCEPT ![s] = 0]
    /\ snap' = [snap EXCEPT ![s] = <<>>]
    /\ trace' = [trace EXCEPT ![s] = <<>>]
    /\ UNCHANGED <<hb, ping, books, afterReset, ring, view, ringObs, connVars>>

\* run_connection: connect_async succeeds, websocket_connected is set to 1,
\* the heartbeat task is spawned and the read loop starts
ConnectOk(s) ==
    /\ conn[s] = "connecting"
    /\ conn' = [conn EXCEPT ![s] = "streaming"]
    /\ gauge' = [gauge EXCEPT ![s] = 1]
    /\ fails' = [fails EXCEPT ![s] = 0]
    /\ lastEv' = [lastEv EXCEPT ![s] = "connect_ok"]
    /\ hb' = [hb EXCEPT ![s] = "running"]
    /\ UNCHANGED <<ping, books, pc, frame, afterReset, prevId, snap, trace, ring,
                   view, ringObs, delay>>

\* one feed client fed with the sequence frames
Next ==
    \/ ConnectOk("BTCUSDT")
    \/ \E f \in SeqFrames : RecvDepth("BTCUSDT", f)
    \/ UpdateBook("BTCUSDT")
    \/ PublishOrderbook("BTCUSDT")
    \/ ResetBook("BTCUSDT")
    \/ Return("BTCUSDT")

Spec == Init /\ [][Next]_vars

\* one feed client fed with the level frames
NextLevels ==
    \/ ConnectOk("BTCUSDT")
    \/ \E f \in LvlFrames : RecvDepth("BTCUSDT", f)
    \/ UpdateBook("BTCUSDT")
    \/ PublishOrderbook("BTCUSDT")
    \/ ResetBook("BTCUSDT")
    \/ Return("BTCUSDT")

SpecLevels == Init /\ [][NextLevels]_vars

TypeOK ==
    /\ DOMAIN books \subseteq Symbols
    /\ \A s \in Symbols :
          pc[s] \in {"idle", "update", "publish", "reset", "done", "bus",
                     "bus_wait", "cache", "cache_wait", "chan", "chan_wait",
                     "ringw", "trade", "trade_pub", "trade_wait"}
    /\ \A s \in Symbols : hb[s] \in {"none", "running", "failed"}
    /\ ping \in {"idle", "wait"}

\* ------------------------------------------------------ claim vocabulary
\* the step in which client s calls orderbook_manager.update
UpdateStep(s) == pc[s] = "update" /\ pc'[s] # "update"

\* the book apply_update starts from: the stored one, or OrderBook::new
PreBook(s) == IF HasBook(s) THEN books[s] ELSE NewBook(s)

\* the entries of a map, as a set of <<price, quantity>>
Entries(m) == {m[i] : i \in 1..Len(m)}

Keys(m) == {m[i][1] : i \in 1..Len(m)}

\* the levels of an update that carry a non-zero quantity
NonZeroLevels(levels) ==
    {<<levels[i].price, levels[i].quantity>> :
        i \in {j \in 1..Len(levels) : ~FEq(levels[j].quantity, 0)}}

Listed(levels) == {levels[i].price : i \in 1..Len(levels)}

\* no price is listed twice on a side
DistinctPrices(levels) ==
    \A i, j \in 1..Len(levels) : levels[i].price = levels[j].price => i = j

\* ----------------------------------------------------------------- claims
\* C1 (as claimed): an update for a symbol with no book returns Ok whatever
\* its first_update_id, and the new book carries the update's last_update_id
\* and its non-zero levels.
C1_Bootstrap ==
    [][\A s \in Symbols :
        (UpdateStep(s) /\ ~HasBook(s)) =>
            LET u == ToDepthUpdate(frame[s][1])
            IN  /\ pc'[s] # "reset"
                /\ s \in DOMAIN books'
                /\ books'[s].last_update_id = u.last_update_id
                /\ Entries(books'[s].bids) = NonZeroLevels(u.bids)
                /\ Entries(books'[s].asks) = NonZeroLevels(u.asks)]_vars

\* C2 (as claimed): the first depth update after a gap reset is accepted as
\* the new baseline, whatever ids it carries, and recreates the book.
C2_GapRecovery ==
    [][\A s \in Symbols :
        (UpdateStep(s) /\ afterReset[s]) =>
            /\ pc'[s] # "reset"
            /\ s \in DOMAIN books'
            /\ books'[s].last_update_id = frame[s][1].u]_vars

\* C3: on an existing book with last_update_id = L, an update with
\* first_update_id > L + 1 is rejected and the book is left exactly as it was.
C3_GapDetection ==
    [][\A s \in Symbols :
        (UpdateStep(s) /\ HasBook(s)
            /\ frame[s][1].U > books[s].last_update_id + 1) =>
            /\ pc'[s] = "reset"
            /\ s \in DOMAIN books'
            /\ books'[s] = books[s]]_vars

\* a gap was just rejected on a book that held levels and a non-zero id
C3_Witness ==
    \E s \in Symbols :
        /\ pc[s] = "reset"
        /\ HasBook(s)
        /\ books[s].bids # <<>>
        /\ books[s].last_update_id > 0
        /\ frame[s][1].U > books[s].last_update_id + 1

\* C4 (as claimed): an update whose last_update_id is at most the book's
\* last_update_id changes nothing in the book.
C4_StaleDropped ==
    [][\A s \in Symbols :
        (UpdateStep(s) /\ HasBook(s)
            /\ frame[s][1].u <= books[s].last_update_id) =>
            /\ s \in DOMAIN books'
            /\ books'[s] = books[s]]_vars

\* C5 (as claimed): a successful apply on an existing book never lowers its
\* last_update_id.
C5_NonDecreasing ==
    [][\A s \in Symbols :
        (UpdateStep(s) /\ HasBook(s) /\ pc'[s] # "reset") =>
            books'[s].last_update_id >= books[s].last_update_id]_vars

\* C6 (as claimed): after apply(u) the book's last_update_id equals
\* u.last_update_id exactly when Ok was returned, and is unchanged otherwise.
C6_IffOk ==
    [][\A s \in Symbols :
        UpdateStep(s) =>
            /\ (books'[s].last_update_id = frame[s][1].u) <=> (pc'[s] # "reset")
            /\ pc'[s] = "reset" =>
                   books'[s].last_update_id = PreBook(s).last_update_id]_vars

\* C6 (amended): Ok implies the book's last_update_id equals
\* u.last_update_id; a rejected apply leaves last_update_id unchanged; and
\* for an update with first_update_id <= last_update_id the ids are equal
\* only if Ok was returned.
C6_OkSetsId ==
    [][\A s \in Symbols :
        UpdateStep(s) =>
            /\ pc'[s] # "reset" => books'[s].last_update_id = frame[s][1].u
            /\ pc'[s] = "reset" =>
                   books'[s].last_update_id = PreBook(s).last_update_id
            /\ (frame[s][1].U <= frame[s][1].u
                    /\ books'[s].last_update_id = frame[s][1].u) =>
                   pc'[s] # "reset"]_vars

\* an apply on a book at a lower id returned Ok and moved the id
C6_Witness ==
    \E s \in Symbols :
        /\ pc[s] = "publish"
        /\ frame[s][1].U > 1
        /\ books[s].last_update_id = frame[s][1].u

\* C7: no level stored in any book has quantity 0.
C7_NoZeroQuantity ==
    \A s \in DOMAIN books :
        /\ \A e \in Entries(books[s].bids) : ~FEq(e[2], 0)
        /\ \A e \in Entries(books[s].asks) : ~FEq(e[2], 0)

\* a frame carrying a zero-quantity bid was applied and levels remain
C7_Witness ==
    \E s \in Symbols :
        /\ pc[s] = "publish"
        /\ \E i \in 1..Len(frame[s][1].b) : frame[s][1].b[i][2] = "0"
        /\ Len(books[s].bids) > 1

\* C8 (as claimed): an apply that returns Ok and leaves both sides non-empty
\* leaves the highest bid strictly below the lowest ask, so no crossed book
\* is handed to the publisher (stated here for the in-sequence updates of an
\* existing book, first_update_id = last_update_id + 1).
C8_NoCrossedBook ==
    [][\A s \in Symbols :
        (UpdateStep(s) /\ HasBook(s) /\ pc'[s] = "publish"
            /\ frame[s][1].U = books[s].last_update_id + 1
            /\ frame[s][1].U <= frame[s][1].u) =>
            \A b \in Keys(books'[s].bids), a \in Keys(books'[s].asks) :
                FLt(b, a)]_vars

\* C9 (as claimed): no inbound depth frame, malformed strings included,
\* results in a stored level at price 0 or below.
C9_PositivePrices ==
    \A s \in DOMAIN books :
        \A k \in Keys(books[s].bids) \cup Keys(books[s].asks) :
            ~(FEq(k, 0) \/ FLt(k, 0))

\* the claimed effect of one side's levels on that side's map
SideApplied(pre, post, levels) ==
    /\ \A i \in 1..Len(levels) :
          IF FEq(levels[i].quantity, 0)
          THEN levels[i].price \notin Keys(post)
          ELSE <<levels[i].price, levels[i].quantity>> \in Entries(post)
    /\ \A e \in Entries(pre) : e[1] \notin Listed(levels) => e \in Entries(post)
    /\ \A e \in Entries(post) : e[1] \notin Listed(levels) => e \in Entries(pre)

\* C10 (as claimed): a successful apply removes, on each side, the prices
\* listed at quantity 0, sets the prices listed at a non-zero quantity, and
\* keeps every price that is not listed (for updates that list each price at
\* most once per side, as the data model of depth updates has it).
C10_ApplySemantics ==
    [][\A s \in Symbols :
        LET u == ToDepthUpdate(frame[s][1])
        IN  (UpdateStep(s) /\ pc'[s] # "reset"
                /\ DistinctPrices(u.bids) /\ DistinctPrices(u.asks)) =>
                /\ SideApplied(PreBook(s).bids, books'[s].bids, u.bids)
                /\ SideApplied(PreBook(s).asks, books'[s].asks, u.asks)]_vars

\* the levels of a side that decide the final state: the last listing of
\* each price
LastListings(levels) ==
    {i \in 1..Len(levels) :
        \A j \in 1..Len(levels) : levels[j].price = levels[i].price => j <= i}

\* the effect of one side's levels on that side's map, the last listing of a
\* price deciding
SideAppliedLast(pre, post, levels) ==
    /\ \A i \in LastListings(levels) :
          IF FEq(levels[i].quantity, 0)
          THEN levels[i].price \notin Keys(post)
          ELSE <<levels[i].price, levels[i].quantity>> \in Entries(post)
    /\ \A e \in Entries(pre) : e[1] \notin Listed(levels) => e \in Entries(post)
    /\ \A e \in Entries(post) : e[1] \notin Listed(levels) => e \in Entries(pre)

\* C11: an update that overlaps the tail of the book's sequence
\* (first_update_id <= last_update_id of the book + 1 <= last_update_id of the
\* update) returns Ok, its levels are applied, and the book's last_update_id
\* becomes the update's.
C11_TailOverlap ==
    [][\A s \in Symbols :
        LET u == ToDepthUpdate(frame[s][1])
        IN  (UpdateStep(s) /\ HasBook(s)
                /\ u.first_update_id <= books[s].last_update_id + 1
                /\ books[s].last_update_id + 1 <= u.last_update_id) =>
                /\ pc'[s] # "reset"
                /\ s \in DOMAIN books'
                /\ books'[s].last_update_id = u.last_update_id
                /\ SideAppliedLast(books[s].bids, books'[s].bids, u.bids)
                /\ SideAppliedLast(books[s].asks, books'[s].asks, u.asks)]_vars

\* an update spanning several ids, starting at or before the book's last id
\* and ending after it, was applied to a book and moved its id
C11_Witness ==
    \E s \in Symbols :
        /\ pc[s] = "publish"
        /\ prevId[s] > 0
        /\ frame[s][1].U <= prevId[s]
        /\ prevId[s] + 1 < frame[s][1].u
        /\ books[s].last_update_id = frame[s][1].u

----------------------------------------------------------------------------
\* Read side of the book store: OrderBook::get_top_levels, OrderBook::mid_price
\* and OrderBookManager::snapshot.

MaxDepth == 2

\* f64 addition (NaN absorbs)
FAdd(a, b) == IF IsNaN(a) \/ IsNaN(b) THEN NaN ELSE a + b

\* Iterator::rev
Rev(q) == [i \in 1..Len(q) |-> q[Len(q) + 1 - i]]

\* Iterator::take
Take(q, n) == SubSeq(q, 1, IF n < Len(q) THEN n ELSE Len(q))

\* the map closure of get_top_levels: (price, qty) -> PriceLevel
ToPriceLevels(q) ==
    [i \in 1..Len(q) |-> [price |-> q[i][1], quantity |-> q[i][2]]]

\* variant of GetTopLevels that walks the bids in map order
GetTopLevels_NoRev(book, depth) ==
    [bids |-> ToPriceLevels(Take(book.bids, depth)),
     asks |-> ToPriceLevels(Take(book.asks, depth))]

\* OrderBook::get_top_levels
GetTopLevels(book, depth) ==
    [bids |-> ToPriceLevels(Take(Rev(book.bids), depth)),
     asks |-> ToPriceLevels(Take(book.asks, depth))]

\* variant of MidPrice that takes the first bid of the map
MidPrice_FirstBid(book) ==
    IF Len(book.bids) = 0 \/ Len(book.asks) = 0
    THEN <<>>
    ELSE <<[num |-> FAdd(book.bids[1][1], book.asks[1][1]), den |-> 2]>>

\* OrderBook::mid_price: <<>> for None, else <<m>> with the f64 (a + b) / 2.0
\* kept as the fraction num/den (halving is exact in f64)
MidPrice(book) ==
    IF Len(book.bids) = 0 \/ Len(book.asks) = 0
    THEN <<>>
    ELSE <<[num |-> FAdd(book.bids[Len(book.bids)][1], book.asks[1][1]),
            den |-> 2]>>

\* OrderBookManager::snapshot: <<>> for None
ManagerSnapshot(s, depth) ==
    IF HasBook(s) THEN <<GetTopLevels(books[s], depth)>> ELSE <<>>

\* a reader calls snapshot(s, depth) (under the read lock of the store)
Snapshot(s, depth) ==
    /\ view = <<>>
    /\ view' = <<[op |-> "snapshot", sym |-> s, depth |-> depth,
                  res |-> ManagerSnapshot(s, depth)]>>
    /\ UNCHANGED <<hb, ping, storeVars, trace, ring, ringObs>>

\* a reader takes the book with get(s) and calls mid_price on it
MidPriceQuery(s) ==
    /\ view = <<>>
    /\ HasBook(s)
    /\ view' = <<[op |-> "mid_price", sym |-> s, depth |-> 0,
                  res |-> MidPrice(books[s])]>>
    /\ UNCHANGED <<hb, ping, storeVars, trace, ring, ringObs>>

\* the reader is done with the value
ReaderReturn ==
    /\ view # <<>>
    /\ view' = <<>>
    /\ UNCHANGED <<hb, ping, storeVars, trace, ring, ringObs>>

\* frames of the read-side specification: in-sequence frames of at most one
\* level a side (three prices to set, one of them to delete, and NaN), and
\* the gap frame
RdStrs == ({"1", "2", "3"} \X {"1"}) \cup {<<"3", "0">>, <<"NaN", "1">>}
RdFrames == DepthFrames(LvlIds, RdStrs, 1) \cup {GapFrame}

NextRead ==
    \/ ConnectOk("BTCUSDT")
    \/ \E f \in RdFrames : RecvDepth("BTCUSDT", f)
    \/ UpdateBook("BTCUSDT")
    \/ PublishOrderbook("BTCUSDT")
    \/ ResetBook("BTCUSDT")
    \/ Return("BTCUSDT")
    \/ \E n \in 0..MaxDepth : Snapshot("BTCUSDT", n)
    \/ MidPriceQuery("BTCUSDT")
    \/ ReaderReturn

SpecRead == Init /\ [][NextRead]_vars

\* a read-side call of the given kind returns in this step
ReadStep(op) == view = <<>> /\ view' # <<>> /\ view'[1].op = op

\* the levels of r are the n best of the map m, best first; Better(a, b) says
\* price a is strictly better than price b
TopOf(r, m, n, Better(_, _)) ==
    /\ Len(r) = (IF n < Len(m) THEN n ELSE Len(m))
    /\ \A i, j \in 1..Len(r) : i < j => Better(r[i].price, r[j].price)
    /\ \A i \in 1..Len(r) : <<r[i].price, r[i].quantity>> \in Entries(m)
    /\ \A e \in Entries(m) :
          (\A i \in 1..Len(r) : <<r[i].price, r[i].quantity>> # e) =>
              \A i \in 1..Len(r) : Better(r[i].price, e[1])

Higher(a, b) == FLt(b, a)

\* C12: get_top_levels(n) returns the bids strictly descending and the asks
\* strictly ascending by price, each of length min(n, levels of the side),
\* and they are the n highest bids and the n lowest asks of the book.
C12_TopN ==
    [][ReadStep("snapshot") =>
        LET s == view'[1].sym
            n == view'[1].depth
        IN  IF ~HasBook(s)
            THEN view'[1].res = <<>>
            ELSE /\ Len(view'[1].res) = 1
                 /\ TopOf(view'[1].res[1].bids, books[s].bids, n, Higher)
                 /\ TopOf(view'[1].res[1].asks, books[s].asks, n, FLt)]_vars

\* a snapshot cut a book of three bids and three asks down to two a side
C12_Witness ==
    /\ view # <<>>
    /\ view[1].op = "snapshot"
    /\ view[1].depth = 2
    /\ view[1].res # <<>>
    /\ Len(view[1].res[1].bids) = 2
    /\ Len(view[1].res[1].asks) = 2
    /\ HasBook(view[1].sym)
    /\ Len(books[view[1].sym].bids) = 3
    /\ Len(books[view[1].sym].asks) = 3
    /\ view[1].res[1] = GetTopLevels(books[view[1].sym], 2)

\* the highest and the lowest key of a non-empty map
MaxKey(m) == CHOOSE k \in Keys(m) : \A k2 \in Keys(m) : ~FLt(k, k2)
MinKey(m) == CHOOSE k \in Keys(m) : \A k2 \in Keys(m) : ~FLt(k2, k)

\* C13: mid_price() returns (highest bid price + lowest ask price) / 2 when
\* both sides are non-empty and None when either side is empty.
C13_MidPrice ==
    [][ReadStep("mid_price") =>
        LET b == books[view'[1].sym]
        IN  IF Len(b.bids) = 0 \/ Len(b.asks) = 0
            THEN view'[1].res = <<>>
            ELSE /\ Len(view'[1].res) = 1
                 /\ view'[1].res[1].den = 2
                 /\ view'[1].res[1].num
                        = FAdd(MaxKey(b.bids), MinKey(b.asks))]_vars

\* mid_price answered on a book with several bids and several asks
C13_Witness ==
    /\ view # <<>>
    /\ view[1].op = "mid_price"
    /\ view[1].res # <<>>
    /\ HasBook(view[1].sym)
    /\ Len(books[view[1].sym].bids) > 1
    /\ Len(books[view[1].sym].asks) > 1
    /\ view[1].res = MidPrice(books[view[1].sym])
    /\ view[1].res[1].num = 5

----------------------------------------------------------------------------
\* SharedMemoryRing: a bounded queue of byte records (crossbeam ArrayQueue,
\* whose push and pop are taken as atomic steps).

\* slots of the queue; stands for ArrayQueue::new(1024)
RingCap == 2

\* SharedMemoryRing.max_message_size
MaxMessageSize == 64 * 1024

\* write calls made by one producer
MaxWrites == 2

\* variant of RingWrite that makes room by dropping the oldest record
RingWrite_DropOldest(q, rec) ==
    IF rec.len > MaxMessageSize
    THEN [res |-> "too_large", q |-> q]
    ELSE IF Len(q) >= RingCap
         THEN [res |-> "ok", q |-> Append(Tail(q), rec)]
         ELSE [res |-> "ok", q |-> Append(q, rec)]

\* variant of RingWrite without the size test
RingWrite_NoSizeCheck(q, rec) ==
    IF Len(q) >= RingCap
    THEN [res |-> "full", q |-> q]
    ELSE [res |-> "ok", q |-> Append(q, rec)]

\* SharedMemoryRing::write on queue contents q: [res, q]
RingWrite(q, rec) ==
    IF rec.len > MaxMessageSize
    THEN [res |-> "too_large", q |-> q]
    ELSE IF Len(q) >= RingCap
         THEN [res |-> "full", q |-> q]
         ELSE [res |-> "ok", q |-> Append(q, rec)]

\* variant of RingRead that pops the newest record
RingRead_Newest(q) ==
    IF q = <<>>
    THEN [res |-> <<>>, q |-> q]
    ELSE [res |-> <<q[Len(q)]>>, q |-> SubSeq(q, 1, Len(q) - 1)]

\* variant of RingRead that leaves the record in the queue
RingRead_Peek(q) ==
    IF q = <<>>
    THEN [res |-> <<>>, q |-> q]
    ELSE [res |-> <<Head(q)>>, q |-> q]

\* SharedMemoryRing::read on queue contents q: [res, q], res <<>> for None
RingRead(q) ==
    IF q = <<>>
    THEN [res |-> <<>>, q |-> q]
    ELSE [res |-> <<Head(q)>>, q |-> Tail(q)]

\* record lengths a producer writes: small, the cap, one over the cap
WriteLens == {1, MaxMessageSize, MaxMessageSize + 1}

\* producer p calls write with a record of the given length; the bytes are
\* tagged by producer and call number
Write(p, len) ==
    /\ wcount[p] < MaxWrites
    /\ LET rec == [bytes |-> <<p, wcount[p] + 1>>, len |-> len]
           r == RingWrite(ring, rec)
       IN  /\ ring' = r.q
           /\ lastWrite' = [lastWrite EXCEPT ![p] = <<[rec |-> rec, res |-> r.res]>>]
           /\ pushed' = IF r.res = "ok" THEN Append(pushed, rec.bytes) ELSE pushed
    /\ wcount' = [wcount EXCEPT ![p] = @ + 1]
    /\ UNCHANGED <<hb, ping, storeVars, trace, view, lastRead, popped>>

\* consumer c calls read
Read(c) ==
    /\ lastRead[c] = <<>>
    /\ LET r == RingRead(ring)
       IN  /\ ring' = r.q
           /\ lastRead' = [lastRead EXCEPT ![c] = <<r.res>>]
           /\ popped' = IF r.res = <<>> THEN popped
                        ELSE Append(popped, r.res[1].bytes)
    /\ UNCHANGED <<hb, ping, storeVars, trace, view, wcount, lastWrite, pushed>>

\* consumer c is done with what its read returned
ConsumerTake(c) ==
    /\ lastRead[c] # <<>>
    /\ lastRead' = [lastRead EXCEPT ![c] = <<>>]
    /\ UNCHANGED <<hb, ping, storeVars, trace, ring, view, wcount, lastWrite, pushed, popped>>

NextRing ==
    \/ \E p \in Producers, len \in WriteLens : Write(p, len)
    \/ \E c \in Consumers : Read(c)
    \/ \E c \in Consumers : ConsumerTake(c)

SpecRing == Init /\ [][NextRing]_vars

WriteStep(p) == wcount'[p] = wcount[p] + 1
RingReadStep(c) == lastRead[c] = <<>> /\ lastRead'[c] # <<>>
IsPrefix(a, b) == Len(a) <= Len(b) /\ a = SubSeq(b, 1, Len(a))
RingBytes == [i \in 1..Len(ring) |-> ring[i].bytes]

\* C14: a write to a full ring returns an error ("full" for a record within
\* the size cap) and leaves the ring's contents and order unchanged; no write
\* removes or replaces a record that has not been read.
C14_DropNewest ==
    [][\A p \in Producers :
        WriteStep(p) =>
            /\ IsPrefix(ring, ring')
            /\ Len(ring) = RingCap =>
                  /\ ring' = ring
                  /\ lastWrite'[p][1].res # "ok"
                  /\ lastWrite'[p][1].rec.len <= MaxMessageSize =>
                        lastWrite'[p][1].res = "full"]_vars

\* a write of a record within the size cap was refused by a full ring
C14_Witness ==
    \E p \in Producers :
        /\ lastWrite[p] # <<>>
        /\ lastWrite[p][1].res = "full"
        /\ lastWrite[p][1].rec.len = 1
        /\ Len(ring) = RingCap
        /\ RingBytes = pushed

\* C15: the ring never holds more records than its capacity, and a write of
\* a record longer than 64 KiB returns "too large" and enqueues nothing,
\* whatever the fill level.
C15_RingBounds ==
    /\ [](Len(ring) <= RingCap)
    /\ [][\A p \in Producers :
            (WriteStep(p) /\ lastWrite'[p][1].rec.len > 65536) =>
                /\ lastWrite'[p][1].res = "too_large"
                /\ ring' = ring]_vars

\* a record of exactly 64 KiB was accepted and a record one byte longer
\* was refused by a ring with free slots
C15_Witness ==
    \E p, q \in Producers :
        /\ lastWrite[p] # <<>> /\ lastWrite[q] # <<>>
        /\ lastWrite[p][1].res = "too_large"
        /\ lastWrite[p][1].rec.len = 65537
        /\ lastWrite[q][1].res = "ok"
        /\ lastWrite[q][1].rec.len = 65536
        /\ Len(ring) = 1

\* C16: read returns None exactly when the ring is empty and leaves it
\* empty; otherwise it removes and returns the oldest record written with
\* success and not yet read, so records are read in the order of their
\* successful writes.
C16_FifoPop ==
    [][\A c \in Consumers :
        RingReadStep(c) =>
            IF ring = <<>>
            THEN lastRead'[c][1] = <<>> /\ ring' = <<>> /\ popped' = popped
            ELSE /\ lastRead'[c][1] = <<Head(ring)>>
                 /\ ring' = Tail(ring)
                 /\ Head(ring).bytes = pushed[Len(popped) + 1]
                 /\ popped' = Append(popped, Head(ring).bytes)
                 /\ IsPrefix(popped', pushed)]_vars

\* two records of different producers were read in the order written, and a
\* read of the emptied ring returned None
C16_Witness ==
    /\ Len(popped) = 2
    /\ popped[1][1] # popped[2][1]
    /\ Len(pushed) = 2
    /\ ring = <<>>
    /\ \E c \in Consumers : lastRead[c] = <<<<>>>>

\* the records written so far by the producers
Issued == {<<p, k>> : p \in Producers, k \in 1..MaxWrites}

\* C17: under every interleaving of writes and reads of several producers
\* and consumers, the records whose write returned Ok are exactly the
\* records read (each once) followed by the records still in the ring, no
\* read returns a record that was not written, and the ring never exceeds
\* its capacity.
C17_MpmcSafe ==
    /\ pushed = popped \o RingBytes
    /\ \A i, j \in 1..Len(popped) : i # j => popped[i] # popped[j]
    /\ \A i \in 1..Len(popped) :
          /\ popped[i] \in Issued
          /\ popped[i][2] <= wcount[popped[i][1]]
    /\ \A p \in Producers :
          (lastWrite[p] # <<>> /\ lastWrite[p][1].res = "ok") =>
              \E i \in 1..Len(pushed) : pushed[i] = lastWrite[p][1].rec.bytes
    /\ Len(ring) <= RingCap

\* both consumers hold records of different producers while further
\* records written with success wait in the ring
C17_Witness ==
    /\ lastRead["c1"] # <<>> /\ lastRead["c1"][1] # <<>>
    /\ lastRead["c2"] # <<>> /\ lastRead["c2"][1] # <<>>
    /\ lastRead["c1"][1][1].bytes[1] # lastRead["c2"][1][1].bytes[1]
    /\ Len(popped) >= 2
    /\ Len(ring) >= 1
    /\ \E p \in Producers : lastWrite[p] # <<>> /\ lastWrite[p][1].res = "full"

----------------------------------------------------------------------------
\* Publisher::publish_orderbook, one step per serialization, bus or cache
\* command (sent, then answered) and ring write.

\* a JSON number: serde_json writes a non-finite f64 value as null
JsonNum(x) == IF IsNaN(x) THEN [null |-> TRUE, n |-> 0] ELSE [null |-> FALSE, n |-> x]

\* a price map as a JSON object: the key and the number of each entry
JsonMap(m) == [i \in 1..Len(m) |-> <<m[i][1], JsonNum(m[i][2])>>]

\* serde_json::to_string(book): [ok, text]. A map key that is not a finite
\* float is an error of the serializer; text is <<>> or <<the document>>
SerializeBook(book) ==
    IF \E k \in Keys(book.bids) \cup Keys(book.asks) : IsNaN(k)
    THEN [ok |-> FALSE, text |-> <<>>]
    ELSE [ok |-> TRUE,
          text |-> <<[symbol |-> book.symbol,
                      bids |-> JsonMap(book.bids),
                      asks |-> JsonMap(book.asks),
                      last_update_id |-> book.last_update_id]>>]

\* the MarketData built from the book (best_bid, best_ask, last_price) and
\* serialized; all its numbers are values, so this serialization succeeds
MarketDataOf(book) ==
    LET best_bid == IF Len(book.bids) = 0 THEN 0
                    ELSE book.bids[Len(book.bids)][1]
        best_ask == IF Len(book.asks) = 0 THEN 0 ELSE book.asks[1][1]
        sum == FAdd(best_bid, best_ask)
    IN  [symbol |-> book.symbol,
         last_price |-> IF FLt(0, best_bid) /\ FLt(0, best_ask)
                        THEN [null |-> IsNaN(sum), num |-> sum, den |-> 2]
                        ELSE [null |-> FALSE, num |-> 0, den |-> 1],
         bid_price |-> JsonNum(best_bid),
         ask_price |-> JsonNum(best_ask)]

\* a lower estimate of the byte length of the book's text: every entry takes
\* more than one byte
TextLen(book) == 1 + Len(book.bids) + Len(book.asks)

\* the four sinks of publish_orderbook for symbol s, in source order
SinkOrder(s) ==
    << <<"publish", <<"orderbook:", s>> >>,
       <<"set", <<"market_data:", s>> >>,
       <<"publish", <<"market_data:", s>> >>,
       <<"ring_write", <<>> >> >>

\* variant of RedisFree for a connection that is not locked for a send
RedisFree_Shared(s) == TRUE

\* nobody else holds the write lock of the bus connection (it is held from
\* the sending of a command to its answer): no other client, and for a
\* client not the caller of health_check
RedisFree(s) ==
    /\ \A t \in Symbols \ {s} :
          pc[t] \notin {"bus_wait", "cache_wait", "chan_wait", "trade_wait"}
    /\ s \in Symbols => ping # "wait"

\* serde_json::to_string(book) with `?`: on Err the call and the handler
\* return Err, and the read loop counts messages_error_total
PubSerialize(s) ==
    /\ pc[s] = "publish"
    /\ IF SerializeBook(snap[s][1]).ok
       THEN /\ pc' = [pc EXCEPT ![s] = "bus"]
            /\ trace' = trace
       ELSE /\ pc' = [pc EXCEPT ![s] = "done"]
            /\ trace' = Log(s, <<Ev("ret", "publish_orderbook", <<s>>, 0, FALSE, <<>>),
                                 Inc("messages_error_total", <<s>>)>>)
    /\ UNCHANGED <<hb, ping, books, frame, afterReset, prevId, snap, ring, view, ringObs, connVars>>

\* publish_redis(orderbook:SYMBOL): lock taken, command sent
PubBusOrderbookSend(s) ==
    /\ pc[s] = "bus"
    /\ RedisFree(s)
    /\ pc' = [pc EXCEPT ![s] = "bus_wait"]
    /\ trace' = Log(s, <<Ev("try", "publish", <<"orderbook:", s>>, 0, TRUE,
                            SerializeBook(snap[s][1]).text)>>)
    /\ UNCHANGED <<hb, ping, books, frame, afterReset, prevId, snap, ring, view, ringObs, connVars>>

\* variant of PubBusOrderbookDone that goes on with the channel publish
PubBusOrderbookDone_ToChannel(s, ok) ==
    /\ pc[s] = "bus_wait"
    /\ pc' = [pc EXCEPT ![s] = "chan"]
    /\ trace' = Log(s, <<Ev("end", "publish", <<"orderbook:", s>>, 0, ok, <<>>),
                         IF ok THEN Inc("redis_publishes_total", <<s, "orderbook">>)
                               ELSE Inc("redis_errors_total", <<s>>)>>)
    /\ UNCHANGED <<hb, ping, books, frame, afterReset, prevId, snap, ring, view, ringObs, connVars>>

\* the answer of the bus: Ok counts redis_publishes_total, Err counts
\* redis_errors_total
PubBusOrderbookDone(s, ok) ==
    /\ pc[s] = "bus_wait"
    /\ pc' = [pc EXCEPT ![s] = "cache"]
    /\ trace' = Log(s, <<Ev("end", "publish", <<"orderbook:", s>>, 0, ok, <<>>),
                         IF ok THEN Inc("redis_publishes_total", <<s, "orderbook">>)
                               ELSE Inc("redis_errors_total", <<s>>)>>)
    /\ UNCHANGED <<hb, ping, books, frame, afterReset, prevId, snap, ring, view, ringObs, connVars>>

\* set_redis(market_data:SYMBOL, payload, 300): lock taken, command sent
PubCacheSetSend(s) ==
    /\ pc[s] = "cache"
    /\ RedisFree(s)
    /\ pc' = [pc EXCEPT ![s] = "cache_wait"]
    /\ trace' = Log(s, <<Ev("try", "set", <<"market_data:", s>>, 300, TRUE,
                            <<MarketDataOf(snap[s][1])>>)>>)
    /\ UNCHANGED <<hb, ping, books, frame, afterReset, prevId, snap, ring, view, ringObs, connVars>>

\* variant of PubCacheSetDone that returns the cache's error to the caller
PubCacheSetDone_Abort(s, ok) ==
    /\ pc[s] = "cache_wait"
    /\ pc' = [pc EXCEPT ![s] = IF ok THEN "chan" ELSE "done"]
    /\ trace' = Log(s, <<Ev("end", "set", <<"market_data:", s>>, 300, ok, <<>>)>>
                       \o (IF ok THEN <<>>
                           ELSE <<Ev("ret", "publish_orderbook", <<s>>, 0, FALSE, <<>>)>>))
    /\ UNCHANGED <<hb, ping, books, frame, afterReset, prevId, snap, ring, view, ringObs, connVars>>

\* the answer of the cache: Err counts redis_errors_total
PubCacheSetDone(s, ok) ==
    /\ pc[s] = "cache_wait"
    /\ pc' = [pc EXCEPT ![s] = "chan"]
    /\ trace' = Log(s, <<Ev("end", "set", <<"market_data:", s>>, 300, ok, <<>>)>>
                       \o (IF ok THEN <<>>
                           ELSE <<Inc("redis_errors_total", <<s>>)>>))
    /\ UNCHANGED <<hb, ping, books, frame, afterReset, prevId, snap, ring, view, ringObs, connVars>>

\* variant of PubMarketDataSend that publishes the book's text
PubMarketDataSend_BookPayload(s) ==
    /\ pc[s] = "chan"
    /\ RedisFree(s)
    /\ pc' = [pc EXCEPT ![s] = "chan_wait"]
    /\ trace' = Log(s, <<Ev("try", "publish", <<"market_data:", s>>, 0, TRUE,
                            SerializeBook(snap[s][1]).text)>>)
    /\ UNCHANGED <<hb, ping, books, frame, afterReset, prevId, snap, ring, view, ringObs, connVars>>

\* publish_redis(market_data:SYMBOL): lock taken, command sent
PubMarketDataSend(s) ==
    /\ pc[s] = "chan"
    /\ RedisFree(s)
    /\ pc' = [pc EXCEPT ![s] = "chan_wait"]
    /\ trace' = Log(s, <<Ev("try", "publish", <<"market_data:", s>>, 0, TRUE,
                            <<MarketDataOf(snap[s][1])>>)>>)
    /\ UNCHANGED <<hb, ping, books, frame, afterReset, prevId, snap, ring, view, ringObs, connVars>>

\* the answer of the bus: Ok counts redis_publishes_total, Err is logged
PubMarketDataDone(s, ok) ==
    /\ pc[s] = "chan_wait"
    /\ pc' = [pc EXCEPT ![s] = "ringw"]
    /\ trace' = Log(s, <<Ev("end", "publish", <<"market_data:", s>>, 0, ok, <<>>)>>
                       \o (IF ok THEN <<Inc("redis_publishes_total", <<s, "market_data">>)>>
                           ELSE <<>>))
    /\ UNCHANGED <<hb, ping, books, frame, afterReset, prevId, snap, ring, view, ringObs, connVars>>

\* shm_ring.write(orderbook_payload): Err is logged; the call returns Ok(())
PubRingWrite(s) ==
    /\ pc[s] = "ringw"
    /\ LET text == SerializeBook(snap[s][1]).text
           r == RingWrite(ring, [bytes |-> text, len |-> TextLen(snap[s][1])])
       IN  /\ ring' = r.q
           /\ trace' = Log(s, <<Ev("try", "ring_write", <<>>, 0, TRUE, text),
                                Ev("end", "ring_write", <<>>, 0, r.res = "ok", <<>>),
                                Ev("ret", "publish_orderbook", <<s>>, 0, TRUE, <<>>)>>)
    /\ pc' = [pc EXCEPT ![s] = "done"]
    /\ UNCHANGED <<hb, ping, books, frame, afterReset, prevId, snap, view, ringObs, connVars>>

\* frames of the publisher specification: in-sequence frames that set or
\* delete one bid (price 1, NaN or a text that is no number) and one ask
\* (price 2), and the gap frame
PubBids == {<<>>, << <<"1", "1">> >>, << <<"NaN", "1">> >>, << <<"1", "0">> >>,
            << <<"x", "1">> >>}
PubAsks == {<<>>, << <<"2", "1">> >>, << <<"2", "0">> >>}
PubFrames ==
    {[U |-> 1, u |-> 1, b |-> b, a |-> a] : b \in PubBids, a \in PubAsks}
        \cup {GapFrame}

\* one feed client with the publisher's steps; nothing reads the ring, as
\* in the service
NextPublish ==
    \/ ConnectOk("BTCUSDT")
    \/ \E f \in PubFrames : RecvDepth("BTCUSDT", f)
    \/ UpdateBook("BTCUSDT")
    \/ PubSerialize("BTCUSDT")
    \/ PubBusOrderbookSend("BTCUSDT")
    \/ \E ok \in BOOLEAN : PubBusOrderbookDone("BTCUSDT", ok)
    \/ PubCacheSetSend("BTCUSDT")
    \/ \E ok \in BOOLEAN : PubCacheSetDone("BTCUSDT", ok)
    \/ PubMarketDataSend("BTCUSDT")
    \/ \E ok \in BOOLEAN : PubMarketDataDone("BTCUSDT", ok)
    \/ PubRingWrite("BTCUSDT")
    \/ ResetBook("BTCUSDT")
    \/ Return("BTCUSDT")

SpecPublish == Init /\ [][NextPublish]_vars

\* the sink events of a trace, as <<kind, op, key>>
IsSinkEv(e) == e.kind \in {"try", "end"}
SinkEvents(s) ==
    LET q == SelectSeq(trace[s], IsSinkEv)
    IN  [i \in 1..Len(q) |-> <<q[i].kind, <<q[i].op, q[i].key>> >>]

\* start and end of each sink, in the order of the claim
ExpectedSinkEvents(s) ==
    [i \in 1..8 |-> <<IF i % 2 = 1 THEN "try" ELSE "end",
                      SinkOrder(s)[(i + 1) \div 2]>>]

\* number of times sink k of symbol s was started in the current handler call
Attempts(s, k) ==
    Cardinality({i \in 1..Len(trace[s]) :
                    /\ trace[s][i].kind = "try"
                    /\ <<trace[s][i].op, trace[s][i].key>> = SinkOrder(s)[k]})

\* the current handler call has ended the sink k with the given outcome
Ended(s, k, ok) ==
    \E i \in 1..Len(trace[s]) :
        /\ trace[s][i].kind = "end"
        /\ <<trace[s][i].op, trace[s][i].key>> = SinkOrder(s)[k]
        /\ trace[s][i].ok = ok

\* C18: within one publish_orderbook call the sinks are written in the order
\* bus publish on orderbook:{symbol}, cache set of market_data:{symbol} with
\* TTL 300, bus publish on market_data:{symbol}, ring write, and no sink is
\* started before the one before it has ended.
C18_SinkOrder ==
    \A s \in Symbols :
        /\ IsPrefix(SinkEvents(s), ExpectedSinkEvents(s))
        /\ \A i \in 1..Len(trace[s]) :
              (IsSinkEv(trace[s][i]) /\ trace[s][i].op = "set") =>
                  trace[s][i].ttl = 300

\* a call went through all four sinks, the first of them failing
C18_Witness ==
    \E s \in Symbols :
        /\ pc[s] = "done"
        /\ SinkEvents(s) = ExpectedSinkEvents(s)
        /\ Ended(s, 1, FALSE)
        /\ Ended(s, 4, TRUE)

\* C19: a failure of a sink does not keep the later sinks from being
\* attempted, and the call returns Ok whatever sinks failed.
C19_IndependentFailures ==
    \A s \in Symbols :
        (pc[s] = "done" /\ Attempts(s, 1) > 0) =>
            /\ \A k \in 1..4 :
                  Attempts(s, k) = 1 /\ (Ended(s, k, TRUE) \/ Ended(s, k, FALSE))
            /\ trace[s][Len(trace[s])]
                  = Ev("ret", "publish_orderbook", <<s>>, 0, TRUE, <<>>)

\* a call in which all four sinks failed returned Ok
C19_Witness ==
    \E s \in Symbols :
        /\ pc[s] = "done"
        /\ \A k \in 1..4 : Ended(s, k, FALSE)
        /\ trace[s][Len(trace[s])].kind = "ret"
        /\ trace[s][Len(trace[s])].ok

\* C20: when the apply returned Ok with both sides of the book non-empty,
\* each of the four sinks was attempted exactly once for the update;
\* otherwise no sink was attempted and orderbook_updates_total was not
\* incremented.
C20_TotalFanout ==
    \A s \in Symbols :
        pc[s] = "done" =>
            IF /\ snap[s] # <<>>
               /\ Len(snap[s][1].bids) > 0
               /\ Len(snap[s][1].asks) > 0
            THEN \A k \in 1..4 : Attempts(s, k) = 1
            ELSE /\ \A k \in 1..4 : Attempts(s, k) = 0
                 /\ \A i \in 1..Len(trace[s]) :
                       trace[s][i].op # "orderbook_updates_total"

\* the counters of errors
ErrorCounters == {"redis_errors_total", "messages_error_total",
                  "sequence_errors_total"}

\* C21: every failure of a sink inside publish_orderbook is at once followed
\* by one increment of an error counter labelled with the symbol.
C21_FailuresCounted ==
    \A s \in Symbols :
        \A i \in 1..Len(trace[s]) :
            (trace[s][i].kind = "end" /\ ~trace[s][i].ok) =>
                /\ i < Len(trace[s])
                /\ trace[s][i + 1].kind = "inc"
                /\ trace[s][i + 1].op \in ErrorCounters
                /\ trace[s][i + 1].key = <<s>>

\* the payload passed to sink k in the current handler call (the sink was
\* attempted)
PayloadOf(s, k) ==
    LET i == CHOOSE i \in 1..Len(trace[s]) :
                /\ trace[s][i].kind = "try"
                /\ <<trace[s][i].op, trace[s][i].key>> = SinkOrder(s)[k]
    IN  trace[s][i].val

\* C22: within one publish_orderbook call the bytes pushed into the ring are
\* the payload published on orderbook:{symbol}, the value set under key
\* market_data:{symbol} (TTL 300) is the payload published on channel
\* market_data:{symbol}, and both come from the book passed to the call.
C22_PayloadConsistency ==
    \A s \in Symbols :
        /\ Attempts(s, 1) > 0 => PayloadOf(s, 1) = SerializeBook(snap[s][1]).text
        /\ Attempts(s, 2) > 0 => PayloadOf(s, 2) = <<MarketDataOf(snap[s][1])>>
        /\ Attempts(s, 3) > 0 => PayloadOf(s, 3) = PayloadOf(s, 2)
        /\ Attempts(s, 4) > 0 => PayloadOf(s, 4) = PayloadOf(s, 1)
        /\ Ended(s, 4, TRUE) =>
              /\ ring # <<>>
              /\ ring[Len(ring)].bytes = PayloadOf(s, 1)
        /\ \A i \in 1..Len(trace[s]) :
              (trace[s][i].kind = "try" /\ trace[s][i].op = "set") =>
                  trace[s][i].ttl = 300

\* a call passed its payloads to the four sinks and the ring took the record
C22_Witness ==
    \E s \in Symbols :
        /\ pc[s] = "done"
        /\ \A k \in 1..4 : Attempts(s, k) = 1
        /\ Ended(s, 4, TRUE)
        /\ PayloadOf(s, 1) # <<>>
        /\ ring[Len(ring)].bytes = PayloadOf(s, 4)

\* C23: the quote published for a book has bid_price = highest bid price,
\* ask_price = lowest ask price, and last_price = (best_bid + best_ask) / 2
\* if both sides of the book are non-empty, else 0.
C23_QuoteDerivation ==
    \A s \in Symbols :
        Attempts(s, 2) > 0 =>
            LET b == snap[s][1]
                q == PayloadOf(s, 2)[1]
            IN  IF Len(b.bids) > 0 /\ Len(b.asks) > 0
                THEN /\ q.bid_price = JsonNum(MaxKey(b.bids))
                     /\ q.ask_price = JsonNum(MinKey(b.asks))
                     /\ q.last_price.num * 2
                            = FAdd(MaxKey(b.bids), MinKey(b.asks)) * q.last_price.den
                ELSE q.last_price.num = 0

----------------------------------------------------------------------------
\* Trades: WebSocketClient::handle_trade and Publisher::publish_trade.

\* aggTrade frames: the symbol, the trade id, price and quantity texts and
\* the maker flag
TradeFrames ==
    [s : Symbols, a : {1}, p : {"1", "x"}, q : {"1"}, m : BOOLEAN]

\* the Trade built by handle_trade
ToTrade(t) ==
    [symbol |-> t.s, trade_id |-> t.a, price |-> ParseOrZero(t.p),
     quantity |-> ParseOrZero(t.q), is_buyer_maker |-> t.m]

\* serde_json::to_string(trade): all numbers are values, so it succeeds
SerializeTrade(trade) ==
    <<[symbol |-> trade.symbol, trade_id |-> trade.trade_id,
       price |-> JsonNum(trade.price), quantity |-> JsonNum(trade.quantity),
       is_buyer_maker |-> trade.is_buyer_maker]>>

\* read.next() yields a text frame that process_message decodes as a trade
RecvTrade(s, t) ==
    /\ conn[s] = "streaming"
    /\ pc[s] = "idle"
    /\ pc' = [pc EXCEPT ![s] = "trade"]
    /\ frame' = [frame EXCEPT ![s] = <<t>>]
    /\ UNCHANGED <<hb, ping, books, afterReset, prevId, snap, trace, ring, view, ringObs, connVars>>

\* handle_trade up to the call of publish_trade and its serialization
HandleTrade(s) ==
    /\ pc[s] = "trade"
    /\ pc' = [pc EXCEPT ![s] = "trade_pub"]
    /\ trace' = Log(s, <<Inc("trades_processed_total", <<s>>)>>)
    /\ UNCHANGED <<hb, ping, books, frame, afterReset, prevId, snap, ring, view, ringObs, connVars>>

\* variant of PubTradeSend that also writes the trade into the ring
PubTradeSend_AlsoRing(s) ==
    /\ pc[s] = "trade_pub"
    /\ RedisFree(s)
    /\ pc' = [pc EXCEPT ![s] = "trade_wait"]
    /\ LET trade == ToTrade(frame[s][1])
       IN  /\ trace' = Log(s, <<Ev("try", "publish", <<"trades:", trade.symbol>>, 0,
                                   TRUE, SerializeTrade(trade))>>)
           /\ ring' = RingWrite(ring, [bytes |-> SerializeTrade(trade), len |-> 1]).q
    /\ UNCHANGED <<hb, ping, books, frame, afterReset, prevId, snap, view, ringObs, connVars>>

\* publish_redis(trades:SYMBOL): lock taken, command sent
PubTradeSend(s) ==
    /\ pc[s] = "trade_pub"
    /\ RedisFree(s)
    /\ pc' = [pc EXCEPT ![s] = "trade_wait"]
    /\ LET trade == ToTrade(frame[s][1])
       IN  trace' = Log(s, <<Ev("try", "publish", <<"trades:", trade.symbol>>, 0,
                                TRUE, SerializeTrade(trade))>>)
    /\ UNCHANGED <<hb, ping, books, frame, afterReset, prevId, snap, ring, view, ringObs, connVars>>

\* the answer of the bus: Ok counts redis_publishes_total, Err counts
\* redis_errors_total; publish_trade returns Ok(())
PubTradeDone(s, ok) ==
    /\ pc[s] = "trade_wait"
    /\ pc' = [pc EXCEPT ![s] = "done"]
    /\ LET trade == ToTrade(frame[s][1])
       IN  trace' = Log(s, <<Ev("end", "publish", <<"trades:", trade.symbol>>, 0, ok, <<>>),
                             IF ok THEN Inc("redis_publishes_total", <<trade.symbol, "trade">>)
                                   ELSE Inc("redis_errors_total", <<trade.symbol>>),
                             Ev("ret", "publish_trade", <<s>>, 0, TRUE, <<>>)>>)
    /\ UNCHANGED <<hb, ping, books, frame, afterReset, prevId, snap, ring, view, ringObs, connVars>>

\* one feed client that receives depth updates and trades
NextTrade ==
    \/ NextPublish
    \/ \E t \in TradeFrames : RecvTrade("BTCUSDT", t)
    \/ HandleTrade("BTCUSDT")
    \/ PubTradeSend("BTCUSDT")
    \/ \E ok \in BOOLEAN : PubTradeDone("BTCUSDT", ok)

SpecTrade == Init /\ [][NextTrade]_vars

\* client s is inside a trade handler call
InTrade(s) ==
    \/ pc[s] \in {"trade", "trade_pub", "trade_wait"}
    \/ pc[s] = "done" /\ \E i \in 1..Len(trace[s]) :
                            trace[s][i].op = "trades_processed_total"

\* the indices of the sink operations started in the current handler call
Tries(s) == {i \in 1..Len(trace[s]) : trace[s][i].kind = "try"}

\* C24: publish_trade publishes the trade once on trades:{symbol} and does
\* nothing else: no ring write, no cache set, no publish on an orderbook or
\* market_data channel, and the book store is left unchanged.
C24_TradeOnly ==
    /\ [](\A s \in Symbols :
            (InTrade(s) /\ pc[s] = "done") =>
                /\ Cardinality(Tries(s)) = 1
                /\ \A i \in Tries(s) :
                      /\ trace[s][i].op = "publish"
                      /\ trace[s][i].key = <<"trades:", frame[s][1].s>>
                      /\ trace[s][i].val = SerializeTrade(ToTrade(frame[s][1])))
    /\ [][\A s \in Symbols :
            (InTrade(s) \/ InTrade(s)') =>
                (pc[s] # pc'[s] => books' = books /\ ring' = ring)]_vars

\* a trade was published while the store held a book and the ring a record
C24_Witness ==
    \E s \in Symbols :
        /\ InTrade(s) /\ pc[s] = "done"
        /\ \E i \in 1..Len(trace[s]) : trace[s][i].kind = "end" /\ trace[s][i].ok
        /\ HasBook(s)
        /\ Len(books[s].bids) > 0
        /\ ring # <<>>

----------------------------------------------------------------------------
\* The connection of a feed client: WebSocketClient::connect_and_run,
\* run_connection and process_message.

Min(a, b) == IF a < b THEN a ELSE b

\* text frames that do not decode into a depth update or a trade: wrapper
\* says whether the envelope parses, stream which stream it names, data
\* whether the inner message parses
TextFrames ==
    {m \in [wrapper : BOOLEAN, stream : {"depth", "aggTrade", "other"},
            data : BOOLEAN] :
        ~(m.wrapper /\ m.stream \in {"depth", "aggTrade"} /\ m.data)}

\* process_message on such a frame: "err" or "ok" (a frame of another stream
\* is dropped without error)
ProcessMessage(m) ==
    IF ~m.wrapper THEN "err"
    ELSE IF m.stream \in {"depth", "aggTrade"} /\ ~m.data THEN "err"
    ELSE "ok"

\* variant of RecvText that gives up the connection on a decode failure
RecvText_Disconnect(s, m) ==
    /\ conn[s] = "streaming"
    /\ pc[s] = "idle"
    /\ pc' = [pc EXCEPT ![s] = "done"]
    /\ frame' = [frame EXCEPT ![s] = <<m>>]
    /\ trace' = IF ProcessMessage(m) = "err"
                THEN Log(s, <<Inc("messages_error_total", <<s>>)>>)
                ELSE trace
    /\ conn' = IF ProcessMessage(m) = "err"
               THEN [conn EXCEPT ![s] = "sleeping"]
               ELSE conn
    /\ UNCHANGED <<hb, ping, books, afterReset, prevId, snap, ring, view, ringObs,
                   delay, gauge, fails, lastEv>>

\* read.next() yields a text frame that process_message does not decode;
\* an Err is counted in messages_error_total by the read loop
RecvText(s, m) ==
    /\ conn[s] = "streaming"
    /\ pc[s] = "idle"
    /\ pc' = [pc EXCEPT ![s] = "done"]
    /\ frame' = [frame EXCEPT ![s] = <<m>>]
    /\ trace' = IF ProcessMessage(m) = "err"
                THEN Log(s, <<Inc("messages_error_total", <<s>>)>>)
                ELSE trace
    /\ UNCHANGED <<hb, ping, books, afterReset, prevId, snap, ring, view, ringObs, connVars>>

\* variant of ConnectFail that gives up
ConnectFail_GiveUp(s) ==
    /\ conn[s] = "connecting"
    /\ conn' = [conn EXCEPT ![s] = "returned"]
    /\ fails' = [fails EXCEPT ![s] = Min(@ + 1, MaxFails)]
    /\ lastEv' = [lastEv EXCEPT ![s] = "connect_fail"]
    /\ UNCHANGED <<hb, ping, books, pc, frame, afterReset, prevId, snap, trace, ring,
                   view, ringObs, delay, gauge>>

\* run_connection: connect_async fails; connect_and_run's Err arm starts
\* sleep(current_delay)
ConnectFail(s) ==
    /\ conn[s] = "connecting"
    /\ conn' = [conn EXCEPT ![s] = "sleeping"]
    /\ fails' = [fails EXCEPT ![s] = Min(@ + 1, MaxFails)]
    /\ lastEv' = [lastEv EXCEPT ![s] = "connect_fail"]
    /\ UNCHANGED <<hb, ping, books, pc, frame, afterReset, prevId, snap, trace, ring,
                   view, ringObs, delay, gauge>>

\* read.next() yields Some(Err): run_connection returns the error and
\* connect_and_run's Err arm starts sleep(current_delay)
StreamError(s) ==
    /\ conn[s] = "streaming"
    /\ pc[s] = "idle"
    /\ conn' = [conn EXCEPT ![s] = "sleeping"]
    /\ lastEv' = [lastEv EXCEPT ![s] = "stream_error"]
    /\ UNCHANGED <<hb, ping, books, pc, frame, afterReset, prevId, snap, trace, ring,
                   view, ringObs, delay, gauge, fails>>

\* read.next() yields Message::Close: the gauge is set to 0, the loop is
\* left, run_connection returns Ok and connect_and_run returns Ok
CloseFrame(s) ==
    /\ conn[s] = "streaming"
    /\ pc[s] = "idle"
    /\ gauge' = [gauge EXCEPT ![s] = 0]
    /\ conn' = [conn EXCEPT ![s] = "returned"]
    /\ lastEv' = [lastEv EXCEPT ![s] = "close"]
    /\ UNCHANGED <<hb, ping, books, pc, frame, afterReset, prevId, snap, trace, ring,
                   view, ringObs, delay, fails>>

\* read.next() yields None: the loop ends, run_connection returns Ok and
\* connect_and_run returns Ok
EndOfStream(s) ==
    /\ conn[s] = "streaming"
    /\ pc[s] = "idle"
    /\ conn' = [conn EXCEPT ![s] = "returned"]
    /\ lastEv' = [lastEv EXCEPT ![s] = "eos"]
    /\ UNCHANGED <<hb, ping, books, pc, frame, afterReset, prevId, snap, trace, ring,
                   view, ringObs, delay, gauge, fails>>

\* sleep(current_delay) ends; current_delay = min(current_delay * 2,
\* max_reconnect_delay) and the loop calls run_connection again
WakeUp(s) ==
    /\ conn[s] = "sleeping"
    /\ conn' = [conn EXCEPT ![s] = "connecting"]
    /\ delay' = [delay EXCEPT ![s] = Min(@ * 2, MaxDelay)]
    /\ lastEv' = [lastEv EXCEPT ![s] = "wake"]
    /\ UNCHANGED <<hb, ping, books, pc, frame, afterReset, prevId, snap, trace, ring,
                   view, ringObs, gauge, fails>>

\* one feed client with its connection, its handlers and the publisher
NextConn ==
    \/ NextTrade
    \/ \E m \in TextFrames : RecvText("BTCUSDT", m)
    \/ ConnectFail("BTCUSDT")
    \/ StreamError("BTCUSDT")
    \/ CloseFrame("BTCUSDT")
    \/ EndOfStream("BTCUSDT")
    \/ WakeUp("BTCUSDT")

SpecConn == Init /\ [][NextConn]_vars

RECURSIVE Pow2(_)
Pow2(n) == IF n = 0 THEN 1 ELSE 2 * Pow2(n - 1)

\* the event ev of client s's connection happens in this step
ConnStep(s, ev) == conn[s] # conn'[s] /\ lastEv'[s] = ev

\* C25: the sleep that follows the k-th consecutive failed connection
\* attempt lasts min(1000 ms * 2^(k-1), 60000 ms).
C25_BackoffSchedule ==
    \A s \in Symbols :
        (conn[s] = "sleeping" /\ lastEv[s] = "connect_fail"
            /\ fails[s] < MaxFails) =>
            delay[s] = Min(1000 * Pow2(fails[s] - 1), 60000)

\* C26: the sleep of the first failure after a successful connection lasts
\* the initial delay of 1000 ms.
C26_ResetOnSuccess ==
    \A s \in Symbols :
        (conn[s] = "sleeping" /\ lastEv[s] = "stream_error") => delay[s] = 1000

\* C27: after a failed connect or a stream error the client sleeps the
\* backoff delay and then connects again, however many attempts have failed;
\* only a clean end of the connection makes it return, without a sleep.
C27_LoopForever ==
    [][\A s \in Symbols :
        /\ (ConnStep(s, "connect_fail") \/ ConnStep(s, "stream_error")) =>
              conn'[s] = "sleeping" /\ delay'[s] = delay[s]
        /\ (conn[s] = "sleeping" /\ conn'[s] # "sleeping") =>
              conn'[s] = "connecting"
        /\ ConnStep(s, "close") => conn'[s] = "returned"
        /\ (conn'[s] = "returned" /\ conn[s] # "returned") =>
              lastEv'[s] \in {"close", "eos"}
        /\ conn[s] = "returned" => conn'[s] = "returned"]_vars

\* the client connects again after its fourth failed attempt in a row
C27_Witness ==
    \E s \in Symbols :
        /\ conn[s] = "connecting"
        /\ lastEv[s] = "wake"
        /\ fails[s] = 4
        /\ delay[s] = 16000

\* C28: when a Close frame is received, websocket_connected is set to 0 and
\* the client goes to its backoff sleep, to connect again afterwards.
C28_CloseReconnects ==
    [][\A s \in Symbols :
        ConnStep(s, "close") => gauge'[s] = 0 /\ conn'[s] = "sleeping"]_vars

\* C29: on a sequence gap the client increments sequence_errors_total once,
\* removes the symbol's book, publishes nothing for the update and stays on
\* the same streaming connection.
C29_GapKeepsConnection ==
    [][\A s \in Symbols :
        /\ (pc[s] = "update" /\ pc'[s] = "reset") =>
              /\ trace'[s] = <<>>
              /\ ring' = ring
              /\ conn[s] = "streaming"
              /\ UNCHANGED connVars
        /\ (pc[s] = "reset" /\ pc'[s] # "reset") =>
              /\ pc'[s] = "done"
              /\ s \notin DOMAIN books'
              /\ trace'[s] = <<Inc("sequence_errors_total", <<s>>)>>
              /\ ring' = ring
              /\ conn[s] = "streaming"
              /\ UNCHANGED connVars
        /\ (pc[s] = "done" /\ afterReset[s] /\ pc'[s] # "done") =>
              /\ pc'[s] = "idle"
              /\ s \notin DOMAIN books'
              /\ ring' = ring
              /\ conn[s] = "streaming"
              /\ UNCHANGED connVars]_vars

\* a gap was handled on a connection that had published a book before
C29_Witness ==
    \E s \in Symbols :
        /\ pc[s] = "done"
        /\ afterReset[s]
        /\ ~HasBook(s)
        /\ trace[s] = <<Inc("sequence_errors_total", <<s>>)>>
        /\ ring # <<>>
        /\ conn[s] = "streaming"

\* client s has just read a text frame that does not decode
DecodeFailed(s) ==
    /\ pc[s] = "done"
    /\ frame[s] # <<>>
    /\ "wrapper" \in DOMAIN frame[s][1]
    /\ ProcessMessage(frame[s][1]) = "err"

\* C30: a text frame that fails to decode increments messages_error_total
\* once, leaves the book store and the sinks untouched, and the read loop
\* goes on with the next frame on the same connection.
C30_DecodeAbsorbed ==
    [][\A s \in Symbols :
        /\ (pc[s] = "idle" /\ DecodeFailed(s)') =>
              /\ trace'[s] = <<Inc("messages_error_total", <<s>>)>>
              /\ books' = books
              /\ ring' = ring
              /\ conn[s] = "streaming"
              /\ UNCHANGED connVars
        /\ (DecodeFailed(s) /\ pc'[s] # "done") =>
              /\ pc'[s] = "idle"
              /\ books' = books
              /\ ring' = ring
              /\ conn[s] = "streaming"
              /\ UNCHANGED connVars]_vars

\* a depth frame whose inner message does not parse was dropped while the
\* store held a book
C30_Witness ==
    \E s \in Symbols :
        /\ DecodeFailed(s)
        /\ frame[s][1].wrapper
        /\ frame[s][1].stream = "depth"
        /\ trace[s] = <<Inc("messages_error_total", <<s>>)>>
        /\ HasBook(s)
        /\ conn[s] = "streaming"

----------------------------------------------------------------------------
\* Order of a client's work and the state of its gauge.

\* client s starts a sink operation of publish_orderbook in this step
DepthTryStep(s) ==
    /\ ~InTrade(s)
    /\ Len(trace'[s]) > Len(trace[s])
    /\ \E i \in (Len(trace[s]) + 1)..Len(trace'[s]) : trace'[s][i].kind = "try"

\* C31: a client takes a depth frame from its connection only when the
\* handling of the frame before it is over; the update it applies is the
\* frame it took last; every sink operation it starts carries the book that
\* apply returned, which is still the store's book: the publishes of update
\* i are issued before update i+1 is applied.
C31_PerSymbolOrder ==
    [][\A s \in Symbols :
        /\ (pc'[s] = "update" /\ pc[s] # "update") =>
              /\ pc[s] = "idle"
              /\ trace[s] = <<>>
              /\ snap[s] = <<>>
              /\ frame[s] = <<>>
        /\ UpdateStep(s) =>
              /\ frame'[s] = frame[s]
              /\ books'[s] = ApplyUpdate(PreBook(s), ToDepthUpdate(frame[s][1])).book
        /\ DepthTryStep(s) =>
              /\ frame'[s] = frame[s]
              /\ snap[s] # <<>>
              /\ snap[s][1].last_update_id = frame[s][1].u
              /\ HasBook(s) /\ books[s] = snap[s][1]
              /\ books' = books]_vars

\* the publish of a later update is in flight while the ring holds the
\* record of an earlier update, which had another book
C31_Witness ==
    \E s \in Symbols :
        /\ pc[s] = "bus_wait"
        /\ ring # <<>>
        /\ ring[1].bytes # SerializeBook(snap[s][1]).text

\* client s is inside a critical section of the store in this step: the
\* call of update, or the removal of its entry
StoreSection(s) ==
    \/ UpdateStep(s)
    \/ pc[s] = "reset" /\ pc'[s] # "reset"

\* client s begins to wait in this step: for the answer of a sink, for the
\* ring, for the next frame of its connection, for a connection or for the
\* end of a sleep
Suspends(s) ==
    \/ /\ Len(trace'[s]) > Len(trace[s])
       /\ \E i \in (Len(trace[s]) + 1)..Len(trace'[s]) : trace'[s][i].kind = "try"
    \/ pc'[s] # pc[s] /\ ring' # ring
    \/ pc'[s] # pc[s] /\ pc'[s] \in {"idle", "bus_wait", "cache_wait", "chan_wait",
                                      "trade_wait"}
    \/ conn'[s] # conn[s] /\ conn'[s] \in {"connecting", "sleeping"}

\* C32: the store is changed, and a book is cloned out of it, only inside a
\* critical section of the store, which is one step of update or of the
\* reset's removal; no such step starts a publish, a cache set, a ring
\* write, a network read or a sleep, so the lock is released before any of
\* them begins.
C32_NoLockAcrossSuspension ==
    [][/\ books' # books => \E s \in Symbols : StoreSection(s)
       /\ \A s \in Symbols :
            /\ (snap'[s] # snap[s] /\ snap'[s] # <<>>) => StoreSection(s)
            /\ StoreSection(s) => ~Suspends(s)
            /\ Suspends(s) => books' = books]_vars

\* a cache set is in flight for a book cloned out of the store
C32_Witness ==
    \E s \in Symbols :
        /\ pc[s] = "cache_wait"
        /\ snap[s] # <<>>
        /\ HasBook(s)
        /\ ring # <<>>

\* C40: websocket_connected{symbol} is 1 only while the client has an open
\* streaming connection, and 0 whenever the client sleeps in its backoff or
\* has returned.
C40_GaugeTracksConnection ==
    \A s \in Symbols :
        /\ gauge[s] = 1 => conn[s] = "streaming"
        /\ conn[s] \in {"sleeping", "returned"} => gauge[s] = 0

----------------------------------------------------------------------------
\* The feed clients of two symbols on the shared store and the shared
\* publisher (main: one task per symbol, one OrderBookManager, one
\* Publisher).

\* Publisher::health_check: the write lock of the bus connection is taken
\* and PING is sent
PingSend ==
    /\ ping = "idle"
    /\ RedisFree("health_check")
    /\ ping' = "wait"
    /\ UNCHANGED <<storeVars, trace, ring, view, ringObs, hb>>

\* the answer to PING (PONG or an error): the lock is released
PingDone ==
    /\ ping = "wait"
    /\ ping' = "idle"
    /\ UNCHANGED <<storeVars, trace, ring, view, ringObs, hb>>

\* frames of the two-client specifications: an in-sequence frame that sets
\* one bid and one ask, one that sets an ask only, and the gap frame
TwoFrames ==
    {[U |-> 1, u |-> 1, b |-> << <<"1", "1">> >>, a |-> << <<"2", "1">> >>],
     [U |-> 1, u |-> 1, b |-> <<>>, a |-> << <<"3", "1">> >>],
     GapFrame}

\* the steps of client s as the store sees them
StoreStep(s) ==
    \/ ConnectOk(s)
    \/ \E f \in TwoFrames : RecvDepth(s, f)
    \/ UpdateBook(s)
    \/ PublishOrderbook(s)
    \/ ResetBook(s)
    \/ Return(s)

\* two feed clients on the shared store
NextStore == \E s \in Symbols : StoreStep(s)

SpecStore == Init /\ [][NextStore]_vars

\* the frames of the publisher's two-client specification: an in-sequence
\* frame that sets one bid and one ask, and the gap frame
BusFrames ==
    {[U |-> 1, u |-> 1, b |-> << <<"1", "1">> >>, a |-> << <<"2", "1">> >>],
     GapFrame}

\* the trade frame of client s in that specification
BusTrade(s) == [s |-> s, a |-> 1, p |-> "1", q |-> "1", m |-> FALSE]

\* the steps of client s with the publisher's steps
BusStep(s) ==
    \/ ConnectOk(s)
    \/ \E f \in BusFrames : RecvDepth(s, f)
    \/ UpdateBook(s)
    \/ PubSerialize(s)
    \/ PubBusOrderbookSend(s)
    \/ \E ok \in BOOLEAN : PubBusOrderbookDone(s, ok)
    \/ PubCacheSetSend(s)
    \/ \E ok \in BOOLEAN : PubCacheSetDone(s, ok)
    \/ PubMarketDataSend(s)
    \/ \E ok \in BOOLEAN : PubMarketDataDone(s, ok)
    \/ PubRingWrite(s)
    \/ ResetBook(s)
    \/ Return(s)
    \/ RecvTrade(s, BusTrade(s))
    \/ HandleTrade(s)
    \/ PubTradeSend(s)
    \/ \E ok \in BOOLEAN : PubTradeDone(s, ok)

\* two feed clients and a caller of health_check on the shared publisher
NextBus ==
    \/ \E s \in Symbols : BusStep(s)
    \/ PingSend
    \/ PingDone

SpecBus == Init /\ [][NextBus]_vars

\* C38: under any interleaving of two feed clients, a step of client A (an
\* apply, a rejected apply, a reset or any other step) leaves the entry of
\* another symbol B as it is: it neither creates nor removes it, and the
\* book stored for B keeps its bids, asks and last_update_id.
C38_CrossSymbolIsolation ==
    [][\A a \in Symbols : \A b \in Symbols \ {a} :
        (pc'[a] # pc[a]) =>
            /\ HasBook(b) <=> b \in DOMAIN books'
            /\ HasBook(b) => books'[b] = books[b]]_vars

\* client A has removed its book after a rejected update while the store
\* holds a book with levels for B
C38_Witness ==
    \E a \in Symbols : \E b \in Symbols \ {a} :
        /\ pc[a] = "done"
        /\ afterReset[a]
        /\ prevId[a] > 0
        /\ ~HasBook(a)
        /\ HasBook(b)
        /\ Len(books[b].bids) > 0

\* the bus commands in flight: a client between the sending of a command and
\* its answer, or health_check between PING and its answer
InFlight ==
    {s \in Symbols : pc[s] \in {"bus_wait", "cache_wait", "chan_wait", "trade_wait"}}
        \cup (IF ping = "wait" THEN {"health_check"} ELSE {})

\* C34: at most one bus or cache command (publish, set, ping) issued through
\* the shared Publisher is in flight at any time, across all feed clients.
C34_ExclusiveSends == Cardinality(InFlight) <= 1

\* a client is about to publish while the cache set of the other client is
\* in flight
C34_Witness ==
    \E a \in Symbols : \E b \in Symbols \ {a} :
        /\ pc[a] = "cache_wait"
        /\ pc[b] = "bus"

\* C35: while one symbol's feed client is inside a bus send that has not
\* been answered, the feed client of another symbol can go on: whatever its
\* position, its next step (an apply, the sending of a publish, its answer)
\* is possible.
C35_StallBlocksOnlyHolder ==
    \A a \in Symbols : \A b \in Symbols \ {a} :
        pc[a] = "bus_wait" => ENABLED BusStep(b)

----------------------------------------------------------------------------
\* Readers that take books out of the store while a feed client works.

\* OrderBookManager::get: <<>> for None, else the clone of the book
ManagerGet(s) == IF HasBook(s) THEN <<books[s]>> ELSE <<>>

\* a reader calls get(s) (under the read lock of the store)
GetBook(s) ==
    /\ view = <<>>
    /\ view' = <<[op |-> "get", sym |-> s, depth |-> 0, res |-> ManagerGet(s)]>>
    /\ UNCHANGED <<hb, ping, storeVars, trace, ring, ringObs>>

\* variant of ReaderApply on a book shared with the store
ReaderApply_Shared(f) ==
    /\ view # <<>>
    /\ view[1].op = "get"
    /\ view[1].res # <<>>
    /\ LET b == ApplyUpdate(view[1].res[1], ToDepthUpdate(f)).book
       IN  /\ view' = <<[view[1] EXCEPT !.res = <<b>>]>>
           /\ books' = PutBook(view[1].sym, b)
    /\ UNCHANGED <<hb, ping, pc, frame, afterReset, prevId, snap, connVars, trace,
                   ring, ringObs>>

\* the reader changes the book get returned to it: apply_update on the clone
ReaderApply(f) ==
    /\ view # <<>>
    /\ view[1].op = "get"
    /\ view[1].res # <<>>
    /\ view' = <<[view[1] EXCEPT
                    !.res = <<ApplyUpdate(view[1].res[1], ToDepthUpdate(f)).book>>]>>
    /\ UNCHANGED <<hb, ping, storeVars, trace, ring, ringObs>>

\* one feed client and a reader that calls get and snapshot at any time
NextIso ==
    \/ StoreStep("BTCUSDT")
    \/ GetBook("BTCUSDT")
    \/ \E n \in 0..MaxDepth : Snapshot("BTCUSDT", n)
    \/ \E f \in TwoFrames : ReaderApply(f)
    \/ ReaderReturn

SpecIso == Init /\ [][NextIso]_vars

\* the reader changes the book it holds in this step
ReaderChange == view # <<>> /\ view' # <<>> /\ view' # view

\* C33: a book returned by update or get is a copy: a step of the feed
\* client (an apply, a rejected apply, a reset) leaves the book a reader
\* holds as it was returned, the clone update returned stays as it is until
\* its handler returns, and a change the reader makes to its book changes
\* neither the store nor the handler's clone.
C33_SnapshotIsolation ==
    [][/\ \A s \in Symbols : pc'[s] # pc[s] => view' = view
       /\ \A s \in Symbols :
            (snap[s] # <<>> /\ pc'[s] # "idle") => snap'[s] = snap[s]
       /\ ReaderChange => books' = books /\ snap' = snap]_vars

\* the reader holds a book it has changed after the store removed the
\* entry it was copied from
C33_Witness ==
    /\ view # <<>>
    /\ view[1].op = "get"
    /\ view[1].res # <<>>
    /\ Len(view[1].res[1].asks) = 2
    /\ ~HasBook(view[1].sym)

\* C39: get and snapshot return none or a book to which a depth update has
\* been applied (its last_update_id is not 0): never the empty book that a
\* rejected update has created and the reset has not yet removed.
C39_NoHalfInitialisedBook ==
    [][/\ ReadStep("get") =>
            \/ view'[1].res = <<>>
            \/ view'[1].res[1].last_update_id > 0
       /\ ReadStep("snapshot") =>
            \/ view'[1].res = <<>>
            \/ books[view'[1].sym].last_update_id > 0]_vars

----------------------------------------------------------------------------
\* The heartbeat task of a connection (run_connection: tokio::spawn).

\* write.send(Ping) fails: the task logs it and ends; the read loop of the
\* connection holds the other half of the stream and is not told
HeartbeatFail(s) ==
    /\ hb[s] = "running"
    /\ hb' = [hb EXCEPT ![s] = "failed"]
    /\ UNCHANGED <<storeVars, trace, ring, view, ringObs, ping>>

\* one feed client with its connection, its handlers, the publisher and the
\* heartbeat task
NextHeartbeat ==
    \/ NextConn
    \/ HeartbeatFail("BTCUSDT")

SpecHeartbeat == Init /\ [][NextHeartbeat]_vars

\* C37: once the heartbeat task of a streaming connection has failed to
\* send a ping and ended, the connection ends only by the client going to
\* its backoff sleep, from which it connects again.
C37_HeartbeatReconnects ==
    [][\A s \in Symbols :
        (hb[s] = "failed" /\ conn[s] = "streaming" /\ conn'[s] # "streaming") =>
            conn'[s] = "sleeping"]_vars

====
